---------------------------- MODULE Spec2Model ----------------------------
(***************************************************************************)
(* Model of the traffic-light detector node (tl_detector.py): the four     *)
(* subscriber callbacks of TLDetector, the decision cycle                   *)
(* process_traffic_lights and the debouncing of the raw colour in image_cb. *)
(*                                                                         *)
(* Conventions.                                                            *)
(*  - An attribute that may be None is a sequence of length <= 1:          *)
(*    None is <<>>, a set value v is <<v>>.                                *)
(*  - A position is a record [x, y, z]; a KD-tree point is a pair <<x, y>>. *)
(*  - Indices are 0-based as in the code; sequences are 1-based, so        *)
(*    positions[i] of the code is positions[i + 1] here.                   *)
(*  - Distances are kept as their squares (the code takes math.sqrt of the *)
(*    same sum); comparisons of two distances and against the tolerance    *)
(*    are made on the squares, which orders them identically.              *)
(***************************************************************************)
EXTENDS Integers, Sequences, FiniteSets, TLC

VARIABLES
    pose,                 \* self.pose
    waypoints,            \* self.waypoints (the Lane message's waypoint list)
    waypoints_2d,         \* self.waypoints_2d
    waypoint_tree,        \* self.waypoint_tree (the points the KDTree holds)
    lights,               \* self.lights
    stop_line_positions,  \* self.stop_line_positions
    has_image,            \* self.has_image
    camera_image,         \* self.camera_image
    state,                \* self.state (last raw colour)
    last_state,           \* self.last_state (last stable colour)
    last_wp,              \* self.last_wp (last published index)
    state_count,          \* self.state_count
    published,            \* messages the last callback put on /traffic_waypoint
    output,               \* latest message on /traffic_waypoint, None before the first
    lastOp,               \* "image_cb" when the callback that ran last is image_cb
    result,               \* what process_traffic_lights did in the last image_cb
    prevRun,              \* run of equal frame outcomes before the current run
    curRun,               \* current run of equal frame outcomes (colour, length)
    runFirst,             \* index returned on the first frame of the current RED run
    image_thread,         \* position and locals of the image callback's thread
    waypoints_thread      \* position and message of the waypoints callback's thread

vars == <<pose, waypoints, waypoints_2d, waypoint_tree, lights,
          stop_line_positions, has_image, camera_image, state, last_state,
          last_wp, state_count, published, output, lastOp, result,
          prevRun, curRun, runFirst, image_thread, waypoints_thread>>

-----------------------------------------------------------------------------
(* Program constants *)

STATE_COUNT_THRESHOLD == 3
UNKNOWN == -1
distance_tolerance == 300

RED == "RED"
YELLOW == "YELLOW"
GREEN == "GREEN"
TL_UNKNOWN == "UNKNOWN"
Colours == {RED, YELLOW, GREEN, TL_UNKNOWN}

None == <<>>
Some(v) == <<v>>

-----------------------------------------------------------------------------
(* Bounds of the model *)

MaxStateCount == 5
MaxCycles == 1   \* frames of one unchanged raw colour that are explored
RunCap == 4          \* the recorded run length saturates here

Min(a, b) == IF a < b THEN a ELSE b

Pos(x, y, z) == [x |-> x, y |-> y, z |-> z]

\* Route of the concrete scenario: 10 positions at x = 0, 10, ..., 90.
Route10 == [i \in 1..10 |-> Pos(10 * (i - 1), 0, 0)]
\* A longer-legged route: 5 positions at x = 0, 100, ..., 400.
RouteLong == [i \in 1..5 |-> Pos(100 * (i - 1), 0, 0)]
\* Route deliveries on /base_waypoints (an empty Lane among them).
Routes == {<<>>, Route10, RouteLong}

\* Pose updates on /current_pose.
Poses == {Pos(0, 0, 0), Pos(0, 400, 0), Pos(60, 0, 0)}

\* Light snapshots on /vehicle/traffic_lights.
Light(x, y, z, c) == [position |-> Pos(x, y, z), state |-> c]
L55 == Light(55, 0, 0, RED)
L310 == Light(310, 0, 0, RED)
L120 == Light(120, 0, 0, GREEN)
Snapshots == {<<>>, <<L55>>, <<L310>>, <<L310, L55>>, <<L55, L120>>}

\* Stop-line configurations (/traffic_light_config), as [x, y] pairs.
Configs == {<<>>, <<(<<50, 0>>)>>, <<(<<50, 0>>), (<<300, 0>>)>>}

\* What the classifier call does on a frame: a colour, or an exception.
ClassifierOutcomes == Colours \cup {"raise"}

-----------------------------------------------------------------------------
(* Pure helpers *)

\* distance_of_positions, squared.
distance_of_positions(pos1, pos2) ==
    (pos1.x - pos2.x) * (pos1.x - pos2.x)
  + (pos1.y - pos2.y) * (pos1.y - pos2.y)
  + (pos1.z - pos2.z) * (pos1.z - pos2.z)

\* The comparison `distance < minimal_distance` of get_closest_index. The
\* running minimum starts at MAX_DISTANCE = sys.maxint, here None: every
\* distance of the model is below sys.maxint.
IsCloser(distance, minimal_distance) ==
    IF minimal_distance = None THEN TRUE ELSE distance < minimal_distance[1]

\* The loop of get_closest_index from iteration i (0-based) on.
RECURSIVE closest_loop(_, _, _, _, _)
closest_loop(p, positions, i, minimal_distance, index) ==
    IF i >= Len(positions) THEN index
    ELSE LET distance == distance_of_positions(p, positions[i + 1])
         IN  IF IsCloser(distance, minimal_distance)
             THEN closest_loop(p, positions, i + 1, Some(distance), i)
             ELSE closest_loop(p, positions, i + 1, minimal_distance, index)

get_closest_index(p, positions) == closest_loop(p, positions, 0, None, UNKNOWN)

\* KDTree(data).query([x, y], 1)[1]: the index of a point of the tree at
\* minimal planar distance. The leaf scan of the tree keeps a candidate
\* only when it is strictly nearer than the best so far, so among equally
\* near points the first one wins.
Dist2d(pt, x, y) == (pt[1] - x) * (pt[1] - x) + (pt[2] - y) * (pt[2] - y)

RECURSIVE kd_scan(_, _, _, _, _, _)
kd_scan(data, x, y, i, best, index) ==
    IF i >= Len(data) THEN index
    ELSE LET d == Dist2d(data[i + 1], x, y)
         IN  IF d < best
             THEN kd_scan(data, x, y, i + 1, d, i)
             ELSE kd_scan(data, x, y, i + 1, best, index)

KDTreeQuery(data, x, y) ==
    kd_scan(data, x, y, 1, Dist2d(data[1], x, y), 0)

\* get_closest_waypoint: the nearest-route-position query on self.waypoint_tree.
get_closest_waypoint(x, y) == KDTreeQuery(waypoint_tree[1], x, y)

LightPositions == [i \in 1..Len(lights) |-> lights[i].position]
get_closest_light(p) == get_closest_index(p, LightPositions)
get_closest_stop_line(p) == get_closest_index(p, stop_line_positions)

\* get_stop_line_positions: one position per configured [x, y], z = 0.0.
get_stop_line_positions(config) ==
    [i \in 1..Len(config) |-> Pos(config[i][1], config[i][2], 0)]

IsAhead_NotBehind(light_waypoint_index, car_index) ==
    light_waypoint_index >= car_index

\* `light_waypoint_index > car_index`
IsAhead(light_waypoint_index, car_index) == light_waypoint_index > car_index

\* `distance_to_traffic_light < distance_tolerance`, on the squares.
WithinTolerance(distance) == distance < distance_tolerance * distance_tolerance

\* Results of one call of process_traffic_lights: a returned pair, or the
\* exception that ended it.
Returned(wp, st) == [wp |-> wp, state |-> st, error |-> "none"]
Raised(e) == [wp |-> UNKNOWN, state |-> TL_UNKNOWN, error |-> e]
Sentinel == Returned(-1, TL_UNKNOWN)

\* get_light_state, with the classifier's outcome on this frame given.
\* Without an image it returns False, which compares equal to
\* TrafficLight.RED (0); image_cb sets has_image before it can be called.
get_light_state(hasImage, cls) ==
    IF ~hasImage THEN Returned(UNKNOWN, RED)
    ELSE IF cls = "raise" THEN Raised("classifier")
    ELSE Returned(UNKNOWN, cls)

Ready_RouteOnly == waypoints # None

\* `if self.pose and self.waypoints`
Ready == pose # None /\ waypoints # None

\* process_traffic_lights. Indexing a list beyond its end, and indexing an
\* empty list with -1, raise IndexError; an attribute access on None (the
\* pose's position, the tree's query) raises AttributeError.
process_traffic_lights(hasImage, cls) ==
    IF ~Ready THEN Sentinel
    ELSE IF pose = None \/ waypoints = None \/ waypoint_tree = None
    THEN Raised("AttributeError")
    ELSE
    LET wps == waypoints[1]
        car_index == get_closest_waypoint(pose[1].x, pose[1].y)
    IN  IF car_index >= Len(wps) THEN Raised("IndexError")
        ELSE
        LET car_position == wps[car_index + 1]
            light_index == get_closest_light(car_position)
        IN  IF light_index = UNKNOWN THEN Sentinel
            ELSE
            LET light_waypoint_index ==
                    get_closest_waypoint(lights[light_index + 1].position.x,
                                         lights[light_index + 1].position.y)
            IN  IF light_waypoint_index >= Len(wps) THEN Raised("IndexError")
                ELSE
                LET light_position == wps[light_waypoint_index + 1]
                IN  IF ~IsAhead(light_waypoint_index, car_index) THEN Sentinel
                    ELSE IF ~WithinTolerance(
                               distance_of_positions(car_position, light_position))
                    THEN Sentinel
                    ELSE
                    LET stop_line_index == get_closest_stop_line(light_position)
                    IN  IF stop_line_index = UNKNOWN /\ stop_line_positions = <<>>
                        THEN Raised("IndexError")
                        ELSE
                        LET stop_line_position ==
                                stop_line_positions[stop_line_index + 1]
                            stop_line_waypoint ==
                                get_closest_waypoint(stop_line_position.x,
                                                     stop_line_position.y)
                            got == get_light_state(hasImage, cls)
                        IN  IF got.error # "none" THEN got
                            ELSE Returned(stop_line_waypoint, got.state)

PublishedIndex_Keep(light_wp, st) == light_wp
PublishedIndex_Never(light_wp, st) == -1

\* `light_wp if state == TrafficLight.RED else -1`
PublishedIndex(light_wp, st) == IF st = RED THEN light_wp ELSE -1

IsStable_Late(count) == count > STATE_COUNT_THRESHOLD

\* Variant that promotes only on the frame the count reaches the threshold.
IsStable_Once(count) == count = STATE_COUNT_THRESHOLD

\* `self.state_count >= STATE_COUNT_THRESHOLD`
IsStable(count) == count >= STATE_COUNT_THRESHOLD

-----------------------------------------------------------------------------
(* Record of frame outcomes: the current run of equal outcomes with its   *)
(* length, and of the run before it its outcome and whether it was longer  *)
(* than STATE_COUNT_THRESHOLD frames.                                      *)

NoRun == [outcome |-> "none", n |-> 0]
NoPrevRun == [outcome |-> "none", long |-> FALSE]
Outcome(r) == IF r.error = "none" THEN r.state ELSE "raised"
Extend(run, o) == [outcome |-> o, n |-> Min(run.n + 1, RunCap)]
Ended(run) == [outcome |-> run.outcome, long |-> run.n > STATE_COUNT_THRESHOLD]

-----------------------------------------------------------------------------
(* State after TLDetector.__init__ *)

\* The image callback's thread between two frames, n frames begun: no
\* local of process_traffic_lights is bound.
Idle(n) ==
    [pc |-> "idle", n |-> n, xfrom |-> None, yfrom |-> None, car_index |-> -1,
     car_position |-> None, seen |-> None, reread |-> None, light_index |-> -1,
     lx |-> None, light_waypoint_index |-> -1, light_position |-> None,
     ret |-> Sentinel]

\* The waypoints callback's thread between two messages.
NoCall == [pc |-> "idle", msg |-> <<>>]

Init ==
    /\ pose = None
    /\ waypoints = None
    /\ camera_image = None
    /\ lights = <<>>
    /\ waypoints_2d = None
    /\ waypoint_tree = None
    /\ \E config \in Configs :
           stop_line_positions = get_stop_line_positions(config)
    /\ has_image = FALSE
    /\ state = TL_UNKNOWN
    /\ last_state = TL_UNKNOWN
    /\ last_wp = -1
    /\ state_count = 0
    /\ published = <<>>
    /\ output = None
    /\ lastOp = "other"
    /\ result = Sentinel
    /\ prevRun = NoPrevRun
    /\ curRun = NoRun
    /\ runFirst = -1
    /\ image_thread = Idle(0)
    /\ waypoints_thread = NoCall

\* What a callback other than image_cb leaves alone or resets.
NoFrame ==
    /\ lastOp' = "other"
    /\ published' = <<>>
    /\ result' = Sentinel
    /\ UNCHANGED <<has_image, camera_image, state, last_state, last_wp,
                   state_count, output, prevRun, curRun, runFirst,
                   stop_line_positions, image_thread, waypoints_thread>>

pose_cb ==
    \E msg \in Poses :
        /\ pose' = Some(msg)
        /\ NoFrame
        /\ UNCHANGED <<waypoints, waypoints_2d, waypoint_tree, lights>>

\* waypoints_cb. KDTree of an empty point list raises (it cannot unpack the
\* shape of the data), after waypoints_2d was assigned and before
\* self.waypoints is.
waypoints_cb ==
    \E msg \in Routes :
        /\ IF waypoints_2d = None \/ waypoints_2d = Some(<<>>)
           THEN /\ waypoints_2d' = Some([i \in 1..Len(msg) |-> <<msg[i].x, msg[i].y>>])
                /\ IF msg = <<>>
                   THEN /\ UNCHANGED <<waypoint_tree, waypoints>>
                        /\ NoFrame
                   ELSE /\ waypoint_tree' = waypoints_2d'
                        /\ waypoints' = Some(msg)
                        /\ NoFrame
           ELSE /\ UNCHANGED <<waypoints_2d, waypoint_tree>>
                /\ waypoints' = Some(msg)
                /\ NoFrame
        /\ UNCHANGED <<pose, lights>>

traffic_cb_ClearsCount ==
    \E msg \in Snapshots :
        /\ lights' = msg
        /\ state_count' = 0
        /\ lastOp' = "other"
        /\ published' = <<>>
        /\ result' = Sentinel
        /\ UNCHANGED <<has_image, camera_image, state, last_state, last_wp,
                       output, prevRun, curRun, runFirst,
                       stop_line_positions, pose, waypoints, waypoints_2d, waypoint_tree,
                       image_thread, waypoints_thread>>

traffic_cb ==
    \E msg \in Snapshots :
        /\ lights' = msg
        /\ NoFrame
        /\ UNCHANGED <<pose, waypoints, waypoints_2d, waypoint_tree>>

\* Lines 95-105 of image_cb on the outcome r of process_traffic_lights: an
\* exception ends the callback; otherwise the debouncer runs.
debounce(r) ==
    /\ r.error = "none" /\ r.state = state => state_count < MaxStateCount
    /\ lastOp' = "image_cb"
    /\ result' = r
    /\ IF Outcome(r) = curRun.outcome
       THEN /\ curRun' = Extend(curRun, Outcome(r))
            /\ UNCHANGED <<prevRun, runFirst>>
       ELSE /\ curRun' = Extend(NoRun, Outcome(r))
            /\ prevRun' = Ended(curRun)
            /\ runFirst' = IF Outcome(r) = RED THEN r.wp ELSE -1
    /\ IF r.error # "none"
       THEN /\ published' = <<>>
            /\ UNCHANGED <<state, last_state, last_wp, state_count, output>>
       ELSE IF state # r.state
               THEN /\ state' = r.state
                    /\ state_count' = 0 + 1
                    /\ published' = <<>>
                    /\ UNCHANGED <<last_state, last_wp, output>>
               ELSE IF IsStable(state_count)
               THEN /\ last_state' = state
                    /\ last_wp' = PublishedIndex(r.wp, r.state)
                    /\ published' = <<last_wp'>>
                    /\ output' = Some(last_wp')
                    /\ state_count' = state_count + 1
                    /\ UNCHANGED state
               ELSE /\ published' = <<last_wp>>
                    /\ output' = Some(last_wp)
                    /\ state_count' = state_count + 1
                    /\ UNCHANGED <<state, last_state, last_wp>>

\* image_cb, with the classifier's outcome on the frame as input.
image_cb ==
    \E cls \in ClassifierOutcomes :
        \E r \in {process_traffic_lights(TRUE, cls)} :
            /\ has_image' = TRUE
            /\ camera_image' = Some("Image")
            /\ debounce(r)
            /\ UNCHANGED <<pose, waypoints, waypoints_2d, waypoint_tree, lights,
                           stop_line_positions, image_thread, waypoints_thread>>

Next == pose_cb \/ waypoints_cb \/ traffic_cb \/ image_cb

Spec == Init /\ [][Next]_vars


-----------------------------------------------------------------------------
(* Properties *)

Frame == lastOp = "image_cb"
FrameReturned == Frame /\ result.error = "none"

\* The route state is the one captured: the list positions are looked up
\* in is the list the spatial index was built from.
RouteConsistent ==
    /\ waypoints # None
    /\ waypoint_tree # None
    /\ waypoint_tree[1] = [i \in 1..Len(waypoints[1]) |->
                              <<waypoints[1][i].x, waypoints[1][i].y>>]

\* The concrete scenario: route of 10 positions at x = 0, 10, ..., 90,
\* vehicle at x = 0, one light at x = 55, one stop line at x = 50.
Scenario ==
    /\ pose = Some(Pos(0, 0, 0))
    /\ waypoints = Some(Route10)
    /\ RouteConsistent
    /\ lights = <<L55>>
    /\ stop_line_positions = <<Pos(50, 0, 0)>>

\* C1: every frame arrival publishes exactly one integer, also a frame
\* whose raw colour differs from the raw colour seen before (stated here
\* for the frames whose decision cycle returns).
C1_EveryFramePublishesOnce ==
    FrameReturned => Len(published) = 1

\* C2: the published index and the stable colour change only on a frame
\* whose raw classification is a colour equal to the raw classification of
\* each of the three frames immediately before it, i.e. a frame that is at
\* least the 4th of its run of equal outcomes.
C2_ChangeOnlyAfterThreeEqualFrames ==
    [][(last_wp' # last_wp \/ last_state' # last_state)
          => (curRun'.outcome \in Colours /\ curRun'.n >= 4)]_vars

\* C3: from the initial state, of a first run of RED frames with a relevant
\* light the frames 1, 2 and 3 each emit the pre-existing index (-1) and
\* frame 4 and every later one emits the stop index of that frame.
C3_FourRedsFromInit ==
    (Frame /\ prevRun = NoPrevRun /\ curRun.outcome = RED)
        => IF curRun.n <= 3 THEN published = <<-1>>
           ELSE published = <<result.wp>>

\* C4 as stated: in the scenario, after 4 consecutive RED frames the output
\* is 5, and after 3 consecutive GREEN frames following them it is -1.
C4_GreenAfterThreeFrames ==
    (Frame /\ Scenario)
        => /\ (curRun.outcome = RED /\ curRun.n >= 4) => output = Some(5)
           /\ (prevRun = [outcome |-> RED, long |-> TRUE]
                 /\ curRun = [outcome |-> GREEN, n |-> 3]) => output = Some(-1)

\* C4 amended: in the scenario, after 4 consecutive RED frames the output
\* is 5; of the GREEN frames that follow them, the first three leave a stop
\* index on the output and the 4th and later ones have made it -1.
C4_GreenAfterFourFrames ==
    (Frame /\ Scenario)
        => /\ (curRun.outcome = RED /\ curRun.n >= 4) => output = Some(5)
           /\ (prevRun = [outcome |-> RED, long |-> TRUE]
                 /\ curRun.outcome = GREEN)
                 => IF curRun.n >= 4 THEN output = Some(-1)
                    ELSE output # None /\ output[1] >= 0

C4_Witness ==
    /\ Frame /\ Scenario
    /\ prevRun = [outcome |-> RED, long |-> TRUE]
    /\ curRun = [outcome |-> GREEN, n |-> 4]
    /\ result = Returned(5, GREEN)
    /\ published = <<-1>>

\* C5: on the frame at which the stable colour changes from RED to another
\* colour, -1 is published and stored as the last published index,
\* whatever stop index the decision cycle returned.
C5_LeavingRedPublishesSentinel ==
    [][(last_state = RED /\ last_state' # RED)
          => (last_wp' = -1 /\ published' = <<-1>>)]_vars

C5_Witness ==
    /\ Frame
    /\ prevRun = [outcome |-> RED, long |-> TRUE]
    /\ curRun = [outcome |-> YELLOW, n |-> 4]
    /\ last_state = YELLOW
    /\ result.wp >= 0
    /\ last_wp = -1
    /\ published = <<-1>>

\* C6: if no light of the snapshot is at a straight-line distance from the
\* vehicle's pose strictly below the tolerance (so the nearest one is not),
\* a decision cycle that returns returns the sentinel (-1, UNKNOWN).
C6_FarLightYieldsSentinel ==
    (FrameReturned /\ pose # None /\ lights # <<>>
       /\ \A i \in 1..Len(lights) :
             distance_of_positions(pose[1], lights[i].position)
                 >= distance_tolerance * distance_tolerance)
        => result = Sentinel

\* C7: if the route index the selected light is mapped to is less than or
\* equal to the vehicle's route index, the decision cycle returns the
\* sentinel (-1, UNKNOWN), however near the light is.
C7_LightNotAheadYieldsSentinel ==
    (Frame /\ pose # None /\ waypoints # None)
        => LET car_index == get_closest_waypoint(pose[1].x, pose[1].y)
           IN  car_index < Len(waypoints[1])
               => LET light_index ==
                          get_closest_light(waypoints[1][car_index + 1])
                  IN  (/\ light_index # UNKNOWN
                       /\ get_closest_waypoint(
                              lights[light_index + 1].position.x,
                              lights[light_index + 1].position.y) <= car_index)
                      => result = Sentinel

C7_Witness ==
    /\ Frame
    /\ pose = Some(Pos(60, 0, 0))
    /\ waypoints = Some(Route10)
    /\ RouteConsistent
    /\ lights = <<L55>>
    /\ stop_line_positions # <<>>
    /\ result = Sentinel

\* C8: a decision cycle that runs with an empty light list or an empty
\* stop-line list returns the sentinel and raises nothing (stated for a
\* route state that is the captured one).
C8_EmptyListsYieldSentinel ==
    (Frame /\ (waypoints # None => RouteConsistent)
       /\ (lights = <<>> \/ stop_line_positions = <<>>))
        => result = Sentinel

\* C9: once the route has been captured, no step changes the route state
\* the decision cycle reads: the spatial index and the waypoint list.
C9_CapturedRouteIsFrozen ==
    [][waypoint_tree # None
          => (waypoint_tree' = waypoint_tree /\ waypoints' = waypoints)]_vars

\* C10: a frame on which the classifier call fails is treated as raw colour
\* UNKNOWN: the debouncer step of image_cb runs for it with UNKNOWN.
C10_ClassifierFailureIsUnknown ==
    [][(lastOp' = "image_cb" /\ result'.error = "classifier")
          => /\ state' = TL_UNKNOWN
             /\ state_count' = IF state = TL_UNKNOWN THEN state_count + 1 ELSE 1]_vars

\* C11: a decision cycle that runs while no pose or no route has been
\* received returns the sentinel (-1, UNKNOWN) and raises nothing, and as
\* long as one of the two is missing every published value is -1.
C11_NotReadyYieldsSentinel ==
    (pose = None \/ waypoints = None)
        => /\ Frame => (result = Returned(-1, TL_UNKNOWN)
                          /\ \A i \in 1..Len(published) : published[i] = -1)
           /\ output \in {None, Some(-1)}

C11_Witness ==
    /\ Frame
    /\ pose = None
    /\ waypoints # None
    /\ lights # <<>>
    /\ curRun = [outcome |-> TL_UNKNOWN, n |-> 4]
    /\ published = <<-1>>

\* C14: a step that replaces the pose or the light snapshot changes no
\* other field (debouncer state, route state, stop lines, image, the other
\* of the two) and publishes nothing.
C14_UpdatesTouchOnlyTheirField ==
    [][(pose' # pose \/ lights' # lights)
          => /\ UNCHANGED <<state, state_count, last_state, last_wp,
                            waypoints, waypoints_2d, waypoint_tree,
                            stop_line_positions, has_image, camera_image,
                            output>>
             /\ published' = <<>>
             /\ (pose' = pose \/ lights' = lights)]_vars

\* After a stable RED with stop index 5 both the snapshot and the pose were
\* replaced (with these no frame yields RED), and the debouncer kept its state.
C14_Witness ==
    /\ ~Frame
    /\ lights = <<>>
    /\ pose = Some(Pos(60, 0, 0))
    /\ waypoints = Some(Route10)
    /\ RouteConsistent
    /\ state = RED /\ state_count >= 4
    /\ last_state = RED /\ last_wp = 5
    /\ output = Some(5)

\* C15: the node never processes a frame with an empty stop-line list (a
\* configuration that yields one makes start-up fail).
C15_NoFrameWithoutStopLines ==
    Frame => stop_line_positions # <<>>

\* C18: the last published index is non-negative exactly when the last
\* stable colour is RED.
C18_IndexIffStableRed ==
    (last_wp >= 0) <=> (last_state = RED)

C18_Witness ==
    /\ Frame
    /\ last_state = RED
    /\ last_wp = 5
    /\ prevRun.outcome = GREEN /\ prevRun.long
    /\ curRun = [outcome |-> RED, n |-> 4]

\* C16: the light a decision cycle selects is a light of the snapshot at
\* minimal distance from the vehicle's pose.
C16_SelectedLightIsNearestToPose ==
    (Frame /\ pose # None /\ waypoints # None /\ lights # <<>>)
        => LET car_index == get_closest_waypoint(pose[1].x, pose[1].y)
           IN  car_index < Len(waypoints[1])
               => LET light_index ==
                          get_closest_light(waypoints[1][car_index + 1])
                  IN  \A j \in 1..Len(lights) :
                          distance_of_positions(pose[1],
                                                lights[light_index + 1].position)
                            <= distance_of_positions(pose[1], lights[j].position)

\* C17: a RED frame that is at least the 4th of its run of RED frames
\* publishes and stores the stop index returned for that very frame.
C17_StableRedPublishesOwnIndex ==
    (Frame /\ curRun.outcome = RED /\ curRun.n >= 4)
        => (published = <<result.wp>> /\ last_wp = result.wp)

\* The run of RED frames began with stop index 0 and this frame's is 3.
C17_Witness ==
    /\ Frame
    /\ curRun = [outcome |-> RED, n |-> 4]
    /\ runFirst = 0
    /\ result = Returned(3, RED)
    /\ published = <<3>>
    /\ last_wp = 3

-----------------------------------------------------------------------------
(* The callbacks as rospy runs them: each subscription's callback in the   *)
(* thread of its own connection, with no lock in the node. One step is one *)
(* read or write of a field of the node another thread writes or reads;    *)
(* pose_cb and traffic_cb are one assignment each.                         *)

detectorVars == <<state, last_state, last_wp, state_count, published, output,
                  lastOp, result, prevRun, curRun, runFirst>>

\* process_traffic_lights ends: it returns r, or raises, and its locals
\* are gone.
Return(r) == [Idle(image_thread.n) EXCEPT !.pc = "l95", !.ret = r]

\* The same on a read of self.lights: what the cycle read is kept.
ReturnAtLights(r) ==
    [Return(r) EXCEPT !.seen = image_thread.seen, !.reread = Some(lights)]

\* Lines 85-86: a frame arrives.
image_cb_l85 ==
    /\ image_thread.pc = "idle"
    /\ image_thread.n < MaxCycles
    /\ has_image' = TRUE
    /\ camera_image' = Some("Image")
    /\ image_thread' = [image_thread EXCEPT !.pc = "l160", !.n = @ + 1]
    /\ UNCHANGED <<pose, waypoints, waypoints_2d, waypoint_tree, lights,
                   stop_line_positions, waypoints_thread>>
    /\ UNCHANGED detectorVars

\* Line 160: `if self.pose and self.waypoints`.
process_traffic_lights_l160 ==
    /\ image_thread.pc = "l160"
    /\ image_thread' = IF Ready THEN [image_thread EXCEPT !.pc = "l161x"]
                       ELSE Return(Sentinel)
    /\ UNCHANGED <<pose, waypoints, waypoints_2d, waypoint_tree, lights,
                   stop_line_positions, has_image, camera_image, waypoints_thread>>
    /\ UNCHANGED detectorVars

\* Line 161, first argument: `self.pose.pose.position.x`.
process_traffic_lights_l161x ==
    /\ image_thread.pc = "l161x"
    /\ image_thread' = IF pose = None THEN Return(Raised("AttributeError"))
                       ELSE [image_thread EXCEPT !.pc = "l161y", !.xfrom = pose]
    /\ UNCHANGED <<pose, waypoints, waypoints_2d, waypoint_tree, lights,
                   stop_line_positions, has_image, camera_image, waypoints_thread>>
    /\ UNCHANGED detectorVars

\* Line 161, second argument `self.pose.pose.position.y`, and the call of
\* get_closest_waypoint on the two values.
process_traffic_lights_l161y ==
    /\ image_thread.pc = "l161y"
    /\ image_thread' =
           IF pose = None \/ waypoint_tree = None
           THEN Return(Raised("AttributeError"))
           ELSE [image_thread EXCEPT
                    !.pc = "l162",
                    !.yfrom = pose,
                    !.car_index = get_closest_waypoint(image_thread.xfrom[1].x,
                                                       pose[1].y)]
    /\ UNCHANGED <<pose, waypoints, waypoints_2d, waypoint_tree, lights,
                   stop_line_positions, has_image, camera_image, waypoints_thread>>
    /\ UNCHANGED detectorVars

\* Line 162: `self.waypoints.waypoints[car_index]`; the two arguments of
\* line 161 are gone.
process_traffic_lights_l162 ==
    /\ image_thread.pc = "l162"
    /\ image_thread' =
           IF waypoints = None THEN Return(Raised("AttributeError"))
           ELSE IF image_thread.car_index >= Len(waypoints[1])
           THEN Return(Raised("IndexError"))
           ELSE [image_thread EXCEPT
                    !.pc = "l165",
                    !.xfrom = None,
                    !.yfrom = None,
                    !.car_position = Some(waypoints[1][image_thread.car_index + 1])]
    /\ UNCHANGED <<pose, waypoints, waypoints_2d, waypoint_tree, lights,
                   stop_line_positions, has_image, camera_image, waypoints_thread>>
    /\ UNCHANGED detectorVars

\* Lines 165-166: get_closest_light reads self.lights once and scans that
\* list.
process_traffic_lights_l165 ==
    /\ image_thread.pc = "l165"
    /\ \E light_index \in {get_closest_light(image_thread.car_position[1])} :
           image_thread' =
               IF light_index = UNKNOWN THEN Return(Sentinel)
               ELSE [image_thread EXCEPT !.pc = "l167",
                                         !.seen = Some(lights),
                                         !.light_index = light_index]
    /\ UNCHANGED <<pose, waypoints, waypoints_2d, waypoint_tree, lights,
                   stop_line_positions, has_image, camera_image, waypoints_thread>>
    /\ UNCHANGED detectorVars

\* Line 167: `self.lights[light_index].pose.pose.position.x`.
process_traffic_lights_l167 ==
    /\ image_thread.pc = "l167"
    /\ image_thread' =
           IF image_thread.light_index >= Len(lights)
           THEN ReturnAtLights(Raised("IndexError"))
           ELSE [image_thread EXCEPT
                    !.pc = "l168",
                    !.reread = Some(lights),
                    !.lx = Some(lights[image_thread.light_index + 1].position.x)]
    /\ UNCHANGED <<pose, waypoints, waypoints_2d, waypoint_tree, lights,
                   stop_line_positions, has_image, camera_image, waypoints_thread>>
    /\ UNCHANGED detectorVars

\* Line 168: `self.lights[light_index].pose.pose.position.y`, and the call
\* of get_closest_waypoint on the two values.
process_traffic_lights_l168 ==
    /\ image_thread.pc = "l168"
    /\ image_thread' =
           IF image_thread.light_index >= Len(lights)
           THEN ReturnAtLights(Raised("IndexError"))
           ELSE IF waypoint_tree = None THEN Return(Raised("AttributeError"))
           ELSE [image_thread EXCEPT
                    !.pc = "l169",
                    !.reread = Some(lights),
                    !.lx = None,
                    !.light_waypoint_index =
                        get_closest_waypoint(
                            image_thread.lx[1],
                            lights[image_thread.light_index + 1].position.y)]
    /\ UNCHANGED <<pose, waypoints, waypoints_2d, waypoint_tree, lights,
                   stop_line_positions, has_image, camera_image, waypoints_thread>>
    /\ UNCHANGED detectorVars

\* Lines 169-174: `self.waypoints.waypoints[light_waypoint_index]` and the
\* two tests on the locals.
process_traffic_lights_l169 ==
    /\ image_thread.pc = "l169"
    /\ image_thread' =
           IF waypoints = None THEN Return(Raised("AttributeError"))
           ELSE IF image_thread.light_waypoint_index >= Len(waypoints[1])
           THEN Return(Raised("IndexError"))
           ELSE
           LET light_position == waypoints[1][image_thread.light_waypoint_index + 1]
           IN  IF ~IsAhead(image_thread.light_waypoint_index, image_thread.car_index)
               THEN Return(Sentinel)
               ELSE IF ~WithinTolerance(
                          distance_of_positions(image_thread.car_position[1],
                                                light_position))
               THEN Return(Sentinel)
               ELSE [image_thread EXCEPT !.pc = "l175",
                                         !.car_index = -1,
                                         !.car_position = None,
                                         !.light_waypoint_index = -1,
                                         !.light_position = Some(light_position)]
    /\ UNCHANGED <<pose, waypoints, waypoints_2d, waypoint_tree, lights,
                   stop_line_positions, has_image, camera_image, waypoints_thread>>
    /\ UNCHANGED detectorVars

\* Lines 175-186: `light = self.lights[light_index]`, the stop line of the
\* light's route position and the classification of the frame.
process_traffic_lights_l175 ==
    /\ image_thread.pc = "l175"
    /\ \E cls \in ClassifierOutcomes :
           image_thread' =
               IF image_thread.light_index >= Len(lights)
               THEN ReturnAtLights(Raised("IndexError"))
               ELSE
               LET stop_line_index ==
                       get_closest_stop_line(image_thread.light_position[1])
               IN  IF stop_line_index = UNKNOWN /\ stop_line_positions = <<>>
                   THEN ReturnAtLights(Raised("IndexError"))
                   ELSE IF waypoint_tree = None
                   THEN Return(Raised("AttributeError"))
                   ELSE
                   LET stop_line_position ==
                           stop_line_positions[stop_line_index + 1]
                       stop_line_waypoint ==
                           get_closest_waypoint(stop_line_position.x,
                                                stop_line_position.y)
                       got == get_light_state(has_image, cls)
                   IN  ReturnAtLights(IF got.error # "none" THEN got
                                      ELSE Returned(stop_line_waypoint, got.state))
    /\ UNCHANGED <<pose, waypoints, waypoints_2d, waypoint_tree, lights,
                   stop_line_positions, has_image, camera_image, waypoints_thread>>
    /\ UNCHANGED detectorVars

\* Lines 95-105: the rest of image_cb on what process_traffic_lights did.
image_cb_l95 ==
    /\ image_thread.pc = "l95"
    /\ debounce(image_thread.ret)
    /\ image_thread' = Idle(image_thread.n)
    /\ UNCHANGED <<pose, waypoints, waypoints_2d, waypoint_tree, lights,
                   stop_line_positions, has_image, camera_image, waypoints_thread>>

\* Variant of lines 68-71 that assigns self.waypoints where the tree is to
\* be built, and builds the tree last.
waypoints_cb_l68_RouteFirst ==
    /\ waypoints_thread.pc = "idle"
    /\ \E msg \in Routes :
           IF waypoints_2d = None \/ waypoints_2d = Some(<<>>)
           THEN /\ waypoints_2d' =
                       Some([i \in 1..Len(msg) |-> <<msg[i].x, msg[i].y>>])
                /\ waypoints' = Some(msg)
                /\ waypoints_thread' = [pc |-> "l71", msg |-> msg]
                /\ UNCHANGED waypoint_tree
           ELSE /\ waypoints' = Some(msg)
                /\ UNCHANGED <<waypoints_2d, waypoint_tree, waypoints_thread>>
    /\ UNCHANGED <<pose, lights, stop_line_positions, has_image, camera_image,
                   image_thread>>
    /\ UNCHANGED detectorVars

\* Lines 68-70, or 68 and 71: a route message arrives. waypoints_2d is read
\* and written by this callback only, so up to the assignment of
\* self.waypoint_tree (or, the tree built already, of self.waypoints) the
\* callback is one step. KDTree raises on an empty list and the callback
\* ends.
waypoints_cb_l68 ==
    /\ waypoints_thread.pc = "idle"
    /\ \E msg \in Routes :
           IF waypoints_2d = None \/ waypoints_2d = Some(<<>>)
           THEN /\ waypoints_2d' =
                       Some([i \in 1..Len(msg) |-> <<msg[i].x, msg[i].y>>])
                /\ IF msg = <<>>
                   THEN UNCHANGED <<waypoint_tree, waypoints_thread>>
                   ELSE /\ waypoint_tree' = waypoints_2d'
                        /\ waypoints_thread' = [pc |-> "l71", msg |-> msg]
                /\ UNCHANGED waypoints
           ELSE /\ waypoints' = Some(msg)
                /\ UNCHANGED <<waypoints_2d, waypoint_tree, waypoints_thread>>
    /\ UNCHANGED <<pose, lights, stop_line_positions, has_image, camera_image,
                   image_thread>>
    /\ UNCHANGED detectorVars

\* Line 71 after the tree was built: `self.waypoints = waypoints`.
waypoints_cb_l71 ==
    /\ waypoints_thread.pc = "l71"
    /\ waypoints' = Some(waypoints_thread.msg)
    /\ waypoints_thread' = NoCall
    /\ UNCHANGED <<pose, waypoints_2d, waypoint_tree, lights, stop_line_positions,
                   has_image, camera_image, image_thread>>
    /\ UNCHANGED detectorVars

NextThreads ==
    \/ pose_cb
    \/ traffic_cb
    \/ waypoints_cb_l68
    \/ waypoints_cb_l71
    \/ image_cb_l85
    \/ process_traffic_lights_l160
    \/ process_traffic_lights_l161x
    \/ process_traffic_lights_l161y
    \/ process_traffic_lights_l162
    \/ process_traffic_lights_l165
    \/ process_traffic_lights_l167
    \/ process_traffic_lights_l168
    \/ process_traffic_lights_l169
    \/ process_traffic_lights_l175
    \/ image_cb_l95

SpecThreads == Init /\ [][NextThreads]_vars

\* C12: every read of self.lights after the scan of get_closest_light, in
\* the same decision cycle, observes the list the scan observed.
C12_LightReadsSeeOneSnapshot ==
    image_thread.reread # None => image_thread.reread = image_thread.seen

\* C13: the x and the y the vehicle is located with in a decision cycle are
\* read from the same pose message.
C13_PoseReadsSeeOneUpdate ==
    image_thread.yfrom # None => image_thread.yfrom = image_thread.xfrom

\* C19: self.waypoints set implies self.waypoint_tree set; the decision
\* cycle is past its readiness test only with self.waypoints set, and no
\* query fails on a missing tree.
C19_QueryOnlyAfterTreeBuilt ==
    /\ waypoints # None => waypoint_tree # None
    /\ image_thread.pc \notin {"idle", "l160", "l95"} => waypoints # None
    /\ image_thread.ret.error # "AttributeError"

\* A cycle has queried the tree, built from the route of 5 positions, after
\* the waypoints callback replaced self.waypoints by the route of 10.
C19_Witness ==
    /\ image_thread.pc = "l162"
    /\ image_thread.car_index = 1
    /\ waypoints_thread.pc = "idle"
    /\ waypoints = Some(Route10)
    /\ waypoint_tree # None
    /\ Len(waypoint_tree[1]) = 5
====
